---- MODULE Spec2Model ----
(***************************************************************************)
(* SyteScan backend: requirement matching and progress scoring.            *)
(*                                                                         *)
(* Strings are sequences of one-character strings, so that str.lower,      *)
(* str.strip, the `in` substring test and the ordering used by sorted()    *)
(* are computed character by character as Python computes them.            *)
(* Confidences are fixed-point numbers in thousandths (920 is 0.92);       *)
(* percentages are fixed-point numbers in hundredths (6667 is 66.67).      *)
(* Sums of confidences are exact here, as they are in the program for the  *)
(* float32 scores the detector yields (their double sums are exact).       *)
(***************************************************************************)
EXTENDS Integers, Sequences, FiniteSets, TLC

VARIABLES
    project_table,      \* rows of table "projects": the set of project ids
    requirement_table,  \* rows of table "requirements", in insertion order
    detection_table,    \* rows of table "detections", in insertion order
    call,               \* the last GET /api/projects/{id}/progress request
    score,              \* the last direct call of _calculate_completion_percentage
    summary,            \* the last direct call of _generate_detection_summary
    match_call,         \* the last direct call of _objects_match
    filter_call,        \* the last direct call of filter_relevant_objects
    requests,           \* progress computations in flight, one per worker
    storage,            \* the image files saved under uploads/projects
    create_call,        \* the last call of ProjectService.create_project
    upload_call         \* the last call of UploadService.process_uploads

vars ==
    <<project_table, requirement_table, detection_table, call, score, summary,
      match_call, filter_call, requests, storage, create_call, upload_call>>

(***************************************************************************)
(* Characters and strings                                                  *)
(***************************************************************************)
LowerAlpha ==
    <<"a","b","c","d","e","f","g","h","i","j","k","l","m",
      "n","o","p","q","r","s","t","u","v","w","x","y","z">>

UpperAlpha ==
    <<"A","B","C","D","E","F","G","H","I","J","K","L","M",
      "N","O","P","Q","R","S","T","U","V","W","X","Y","Z">>

IsUpper(c) == \E i \in DOMAIN UpperAlpha : UpperAlpha[i] = c

IsLower(c) == \E i \in DOMAIN LowerAlpha : LowerAlpha[i] = c

IsSpace(c) == c = " "

\* ord(c): the code point of a character (space, A-Z, a-z)
ord(c) ==
    IF IsSpace(c) THEN 32
    ELSE IF IsUpper(c) THEN 64 + (CHOOSE i \in DOMAIN UpperAlpha : UpperAlpha[i] = c)
    ELSE 96 + (CHOOSE i \in DOMAIN LowerAlpha : LowerAlpha[i] = c)

lower_char(c) ==
    IF IsUpper(c) THEN LowerAlpha[CHOOSE i \in DOMAIN UpperAlpha : UpperAlpha[i] = c]
    ELSE c

\* str.lower()
lower(s) == [i \in 1..Len(s) |-> lower_char(s[i])]

\* str.strip(): drops leading and trailing whitespace
RECURSIVE lstrip(_)
lstrip(s) == IF s # <<>> /\ IsSpace(Head(s)) THEN lstrip(Tail(s)) ELSE s

RECURSIVE rstrip(_)
rstrip(s) ==
    IF s # <<>> /\ IsSpace(s[Len(s)]) THEN rstrip(SubSeq(s, 1, Len(s) - 1)) ELSE s

strip(s) == rstrip(lstrip(s))

\* Python's `a in b` on strings: a occurs in b as a contiguous run
str_in(a, b) ==
    \E i \in 0..(Len(b) - Len(a)) : SubSeq(b, i + 1, i + Len(a)) = a

\* Python's a < b on strings: lexicographic by code point
str_lt(a, b) ==
    \E k \in 1..(Len(b)) :
        /\ k <= Len(a) + 1
        /\ \A j \in 1..(k - 1) : a[j] = b[j]
        /\ \/ k = Len(a) + 1
           \/ (k <= Len(a) /\ ord(a[k]) < ord(b[k]))

\* sorted(S) for a set of strings
RECURSIVE sorted(_)
sorted(S) ==
    IF S = {} THEN <<>>
    ELSE LET m == CHOOSE x \in S : \A y \in S : x = y \/ str_lt(x, y)
         IN  <<m>> \o sorted(S \ {m})

(***************************************************************************)
(* Object names                                                            *)
(***************************************************************************)
Sofa        == <<"s","o","f","a">>
Couch       == <<"c","o","u","c","h">>
Tv          == <<"t","v">>
Television  == <<"t","e","l","e","v","i","s","i","o","n">>
DiningTable == <<"d","i","n","i","n","g"," ","t","a","b","l","e">>
Table       == <<"t","a","b","l","e">>
Chair       == <<"c","h","a","i","r">>
CHAIR       == <<"C","H","A","I","R">>
Seat        == <<"s","e","a","t">>
Bed         == <<"b","e","d">>
Bedroom     == <<"b","e","d","r","o","o","m">>
Light       == <<"l","i","g","h","t">>
Lamp        == <<"l","a","m","p">>
Fan         == <<"f","a","n">>
CeilingFan  == <<"c","e","i","l","i","n","g"," ","f","a","n">>
Window      == <<"w","i","n","d","o","w">>
TableLamp   == <<"t","a","b","l","e"," ","l","a","m","p">>
Person      == <<"p","e","r","s","o","n">>
EmptyName   == <<>>
PaddedChair == <<" ","c","h","a","i","r"," ">>
PaddedTitleChair == <<" ","C","h","a","i","r"," ">>
Blank       == <<" "," ">>

\* the values of the synonyms dictionary of _objects_match
synonyms ==
    { {Couch, Sofa}, {Tv, Television}, {Table, DiningTable}, {Chair, Seat},
      {Bed, Bedroom}, {Lamp, Light}, {Fan, CeilingFan}, {Window} }

\* a variant of _objects_match whose partial matching only looks for the
\* required name inside the detected name
objects_match_one_way(detected_name, required_name) ==
    \/ detected_name = required_name
    \/ \E synonym_group \in synonyms :
          detected_name \in synonym_group /\ required_name \in synonym_group
    \/ str_in(required_name, detected_name)

\* a variant of _objects_match whose partial matching only looks for the
\* detected name inside the required name
objects_match_from_requirement(detected_name, required_name) ==
    \/ detected_name = required_name
    \/ \E synonym_group \in synonyms :
          detected_name \in synonym_group /\ required_name \in synonym_group
    \/ str_in(detected_name, required_name)

\* DetectionService._objects_match
objects_match(detected_name, required_name) ==
    \/ detected_name = required_name
    \/ \E synonym_group \in synonyms :
          detected_name \in synonym_group /\ required_name \in synonym_group
    \/ str_in(required_name, detected_name)
    \/ str_in(detected_name, required_name)

\* a variant of the inner loop of filter_relevant_objects without `break`
RECURSIVE append_if_matching_without_break(_, _)
append_if_matching_without_break(detection, normalized_requirements) ==
    IF normalized_requirements = <<>> THEN <<>>
    ELSE IF objects_match(detection.name, Head(normalized_requirements))
    THEN <<detection>>
             \o append_if_matching_without_break(detection, Tail(normalized_requirements))
    ELSE append_if_matching_without_break(detection, Tail(normalized_requirements))

\* the inner loop of filter_relevant_objects: what one detection adds to
\* relevant_detections (append and break at the first matching requirement)
RECURSIVE append_if_matching(_, _)
append_if_matching(detection, normalized_requirements) ==
    IF normalized_requirements = <<>> THEN <<>>
    ELSE IF objects_match(detection.name, Head(normalized_requirements))
    THEN <<detection>>
    ELSE append_if_matching(detection, Tail(normalized_requirements))

\* the outer loop of filter_relevant_objects
RECURSIVE relevant_detections(_, _)
relevant_detections(detections, normalized_requirements) ==
    IF detections = <<>> THEN <<>>
    ELSE append_if_matching(Head(detections), normalized_requirements)
             \o relevant_detections(Tail(detections), normalized_requirements)

\* [req.lower().strip() for req in requirements]
RECURSIVE normalized_requirements_of(_)
normalized_requirements_of(requirements) ==
    IF requirements = <<>> THEN <<>>
    ELSE <<strip(lower(Head(requirements)))>> \o normalized_requirements_of(Tail(requirements))

\* a variant of filter_relevant_objects that always takes the branch of the
\* except clause: return detections
filter_relevant_objects_unfiltered(detections, requirements) == detections

\* DetectionService.filter_relevant_objects
filter_relevant_objects(detections, requirements) ==
    relevant_detections(detections, normalized_requirements_of(requirements))

(***************************************************************************)
(* Numbers                                                                 *)
(***************************************************************************)
\* a variant of py_round that truncates (int()) instead of rounding
py_round_truncating(num, den) == num \div den

\* Python's round() of the quotient num / den to an integer number of units:
\* the nearest integer, a tie going to the even neighbour (the float
\* computation round((d / t) * 100, 2) gives this value for every t below 160)
py_round(num, den) ==
    LET q == num \div den
        r == num % den
    IN  IF 2 * r > den THEN q + 1
        ELSE IF 2 * r < den THEN q
        ELSE IF q % 2 = 0 THEN q ELSE q + 1

\* a variant of max that takes the first element (confidences[0])
max_first_element(xs) == xs[1]

\* a variant of max that takes the last element (confidences[-1])
max_last_element(xs) == xs[Len(xs)]

\* max() of a non-empty list of numbers
max(xs) == CHOOSE x \in {xs[i] : i \in DOMAIN xs} : \A i \in DOMAIN xs : xs[i] <= x

\* a variant of sum that adds a value that occurs several times only once
RECURSIVE sum_skipping_repeats(_)
sum_skipping_repeats(xs) ==
    IF xs = <<>> THEN 0
    ELSE IF \E i \in 2..Len(xs) : xs[i] = Head(xs) THEN sum_skipping_repeats(Tail(xs))
    ELSE Head(xs) + sum_skipping_repeats(Tail(xs))

RECURSIVE sum(_)
sum(xs) == IF xs = <<>> THEN 0 ELSE Head(xs) + sum(Tail(xs))

\* Optional[float]: None is the empty sequence, a value v is <<v>>
None == <<>>

Some(v) == <<v>>

(***************************************************************************)
(* ORM relationships (models/project.py)                                   *)
(***************************************************************************)
\* project.requirements: the Requirement rows of the project
project_requirements(project_id) ==
    SelectSeq(requirement_table, LAMBDA row : row.project_id = project_id)

\* project.detections: the Detection rows of the project
project_detections(project_id) ==
    SelectSeq(detection_table, LAMBDA row : row.project_id = project_id)

(***************************************************************************)
(* ProgressService                                                         *)
(***************************************************************************)
\* detection_groups[key]: the confidences of the detections whose lower-cased
\* name is key, in list order
group_confidences(detections, key) ==
    LET hits == SelectSeq(detections, LAMBDA d : lower(d.object_name) = key)
    IN  [i \in 1..Len(hits) |-> hits[i].confidence]

\* a variant of detection_groups keyed by the raw name (no .lower())
detection_groups_raw_key(detections) ==
    [key \in {detections[i].object_name : i \in DOMAIN detections}
        |-> LET hits == SelectSeq(detections, LAMBDA d : d.object_name = key)
            IN  [i \in 1..Len(hits) |-> hits[i].confidence]]

\* detection_groups: defaultdict(list) filled by the loop over detections
detection_groups(detections) ==
    [key \in {lower(detections[i].object_name) : i \in DOMAIN detections}
        |-> group_confidences(detections, key)]

\* a variant of requirement_match that reports confidence 0.0, not None, for an
\* undetected requirement
requirement_match_zero_confidence(requirement, groups) ==
    LET req_lower == lower(requirement)
    IN  IF req_lower \in DOMAIN groups
        THEN [requirement |-> requirement,
              detected    |-> TRUE,
              confidence  |-> Some(max(groups[req_lower])),
              count       |-> Len(groups[req_lower])]
        ELSE [requirement |-> requirement,
              detected    |-> FALSE,
              confidence  |-> Some(0),
              count       |-> 0]

\* a variant of requirement_match that reports the lower-cased name in place
\* of the requirement's text
requirement_match_lowered_text(requirement, groups) ==
    LET req_lower == lower(requirement)
    IN  IF req_lower \in DOMAIN groups
        THEN [requirement |-> req_lower,
              detected    |-> TRUE,
              confidence  |-> Some(max(groups[req_lower])),
              count       |-> Len(groups[req_lower])]
        ELSE [requirement |-> req_lower,
              detected    |-> FALSE,
              confidence  |-> None,
              count       |-> 0]

\* the RequirementMatch appended for one requirement
requirement_match(requirement, groups) ==
    LET req_lower == lower(requirement)
    IN  IF req_lower \in DOMAIN groups
        THEN [requirement |-> requirement,
              detected    |-> TRUE,
              confidence  |-> Some(max(groups[req_lower])),
              count       |-> Len(groups[req_lower])]
        ELSE [requirement |-> requirement,
              detected    |-> FALSE,
              confidence  |-> None,
              count       |-> 0]

\* ProgressService._calculate_requirement_matches
calculate_requirement_matches(requirements, detections) ==
    LET groups == detection_groups(detections)
    IN  [i \in 1..Len(requirements) |-> requirement_match(requirements[i], groups)]

\* a variant of detected_count that adds up the counts of the matches
detected_count_summing_counts(requirement_matches) ==
    sum([i \in 1..Len(requirement_matches) |-> requirement_matches[i].count])

\* detected_count = sum(1 for match in requirement_matches if match.detected)
detected_count(requirement_matches) ==
    Len(SelectSeq(requirement_matches, LAMBDA match : match.detected))

\* ProgressService._calculate_completion_percentage, in hundredths of a percent
calculate_completion_percentage(requirement_matches) ==
    IF requirement_matches = <<>> THEN 0
    ELSE py_round(detected_count(requirement_matches) * 10000,
                  Len(requirement_matches))

\* the DetectionSummary of "no detections"
EmptySummary ==
    [total_objects_detected |-> 0, unique_objects |-> <<>>, average_confidence |-> 0]

\* the distinct elements of a list in order of first occurrence
RECURSIVE first_occurrences(_)
first_occurrences(xs) ==
    IF xs = <<>> THEN <<>>
    ELSE LET front == first_occurrences(SubSeq(xs, 1, Len(xs) - 1))
             last == xs[Len(xs)]
         IN  IF \E i \in DOMAIN front : front[i] = last THEN front
             ELSE Append(front, last)

\* a variant of generate_detection_summary that leaves out sorted()
generate_detection_summary_unsorted(detections) ==
    IF detections = <<>> THEN EmptySummary
    ELSE LET total_confidence ==
                 sum([i \in 1..Len(detections) |-> detections[i].confidence])
         IN  [total_objects_detected |-> Len(detections),
              unique_objects         |->
                  first_occurrences([i \in 1..Len(detections) |->
                                        detections[i].object_name]),
              average_confidence     |-> py_round(total_confidence, Len(detections))]

\* ProgressService._generate_detection_summary; average in thousandths
generate_detection_summary(detections) ==
    IF detections = <<>> THEN EmptySummary
    ELSE LET unique_objects == {detections[i].object_name : i \in DOMAIN detections}
             total_confidence ==
                 sum([i \in 1..Len(detections) |-> detections[i].confidence])
         IN  [total_objects_detected |-> Len(detections),
              unique_objects         |-> sorted(unique_objects),
              average_confidence     |-> py_round(total_confidence, Len(detections))]

\* ProgressResponse(...): completion_percentage is Field(ge=0.0, le=100.0);
\* a value outside the range raises a ValidationError
ProgressResponseValid(completion_percentage) ==
    0 <= completion_percentage /\ completion_percentage <= 10000

\* what calculate_project_progress hands back: a ProgressResponse, None or an
\* exception with its message
Returned(project_id, completion_percentage, requirement_matches, detection_summary) ==
    [kind |-> "ProgressResponse",
     message |-> "",
     project_id |-> project_id,
     completion_percentage |-> completion_percentage,
     requirement_matches |-> requirement_matches,
     detection_summary |-> detection_summary]

Raised(project_id, message) ==
    [kind |-> "Exception",
     message |-> message,
     project_id |-> project_id,
     completion_percentage |-> 0,
     requirement_matches |-> <<>>,
     detection_summary |-> EmptySummary]

ReturnedNone(project_id) ==
    [kind |-> "None",
     message |-> "",
     project_id |-> project_id,
     completion_percentage |-> 0,
     requirement_matches |-> <<>>,
     detection_summary |-> EmptySummary]

\* the construction of the ProgressResponse inside the try block: a
\* ValidationError is caught by `except Exception`
build_progress_response(project_id, percentage, matches, detection_summary) ==
    IF ProgressResponseValid(percentage)
    THEN Returned(project_id, percentage, matches, detection_summary)
    ELSE Raised(project_id, "Failed to calculate progress")

\* the names handed to the matching step: [req.object_name for req in ...]
requirement_names(project_id) ==
    LET rows == project_requirements(project_id)
    IN  [i \in 1..Len(rows) |-> rows[i].object_name]

\* ProgressService.calculate_project_progress from the point where the
\* project's requirement names and detections have been read
progress_of(project_id, requirements, detections) ==
    IF requirements = <<>>
    THEN build_progress_response(project_id, 0, <<>>, EmptySummary)
    ELSE LET requirement_matches ==
                 calculate_requirement_matches(requirements, detections)
         IN  build_progress_response(
                 project_id,
                 calculate_completion_percentage(requirement_matches),
                 requirement_matches,
                 generate_detection_summary(detections))

\* ProgressService.calculate_project_progress; db_fails: the query raises
\* SQLAlchemyError
calculate_project_progress(project_id, db_fails) ==
    IF db_fails
    THEN Raised(project_id, "Failed to calculate progress due to database error")
    ELSE IF project_id \notin project_table
    THEN ReturnedNone(project_id)
    ELSE progress_of(project_id, requirement_names(project_id),
                     project_detections(project_id))

\* a variant of progress_status without `except HTTPException: raise`: the 404
\* raised in the try block is caught by `except Exception`
progress_status_without_reraise(progress_data) ==
    IF progress_data.kind = "Exception" THEN 500
    ELSE IF progress_data.kind = "None" THEN 500
    ELSE 200

\* api/progress.py get_project_progress: the HTTP status of the answer
progress_status(progress_data) ==
    IF progress_data.kind = "Exception" THEN 500
    ELSE IF progress_data.kind = "None" THEN 404
    ELSE 200

(***************************************************************************)
(* Bounds and input sets                                                   *)
(***************************************************************************)
MaxReqs == 2

MaxDets == 2

MaxSummaryDets == 3

MaxMatches == 6

ProjectIds == {"p1", "p2"}

\* requirement names; CHAIR exercises requirement.lower()
RequirementNames == {Sofa, Table, Chair, CHAIR}

SeqsUpTo(S, n) == UNION {[1..k -> S] : k \in 0..n}

RequirementRows == [project_id : {"p1"}, object_name : RequirementNames]

DetectionRow(object_name, confidence) ==
    [project_id |-> "p1", image_path |-> "img1",
     object_name |-> object_name, confidence |-> confidence]

\* detections: detector labels with a confidence; CHAIR is the mixed-case
\* input of the service's unit test
DetectionRows ==
    { DetectionRow(Couch, 780), DetectionRow(DiningTable, 780),
      DetectionRow(Chair, 780), DetectionRow(Chair, 920), DetectionRow(CHAIR, 920) }

\* RequirementMatch records handed directly to _calculate_completion_percentage
MatchRecords ==
    { [requirement |-> Chair, detected |-> TRUE, confidence |-> Some(920), count |-> 2],
      [requirement |-> Lamp, detected |-> FALSE, confidence |-> None, count |-> 0] }

(***************************************************************************)
(* State machine                                                           *)
(***************************************************************************)
NoCall ==
    [pc |-> "idle", project_id |-> "", requirements |-> <<>>, detections |-> <<>>,
     progress_data |-> ReturnedNone(""), status |-> 0]

NoScore == [pc |-> "idle", requirement_matches |-> <<>>, percentage |-> 0]

NoSummary == [pc |-> "idle", detections |-> <<>>, detection_summary |-> EmptySummary]

NoMatchCall ==
    [pc |-> "idle", detected_name |-> <<>>, required_name |-> <<>>, result |-> FALSE]

NoFilterCall ==
    [pc |-> "idle", detections |-> <<>>, requirements |-> <<>>, result |-> <<>>]

\* the workers that serve progress requests
Workers == {"w1", "w2"}

\* a worker between two requests
IdleRequest ==
    [pc |-> "idle", project_id |-> "", requirements |-> <<>>, detections |-> <<>>,
     requirement_matches |-> <<>>, completion_percentage |-> 0,
     detection_summary |-> EmptySummary, progress_data |-> ReturnedNone("")]

NoRequests == [w \in Workers |-> IdleRequest]

NoCreateCall ==
    [pc |-> "idle", submitted |-> <<>>, project_id |-> "", kind |-> "None",
     message |-> "", requirements |-> <<>>]

NoUploadCall ==
    [pc |-> "idle", calls |-> 0, project_id |-> "", files |-> <<>>, status |-> 0,
     uploaded_files |-> <<>>, detection_results |-> <<>>,
     total_objects_detected |-> 0, processing_summary_total |-> 0]

\* GET /api/projects/{project_id}/progress
GetProgress(project_id, db_fails) ==
    LET progress_data == calculate_project_progress(project_id, db_fails)
        found == ~db_fails /\ project_id \in project_table
    IN  /\ call' = [pc |-> "done",
                    project_id |-> project_id,
                    requirements |-> IF found THEN requirement_names(project_id)
                                     ELSE <<>>,
                    detections |-> IF found THEN project_detections(project_id)
                                   ELSE <<>>,
                    progress_data |-> progress_data,
                    status |-> progress_status(progress_data)]
        /\ UNCHANGED <<project_table, requirement_table, detection_table, score, summary,
                     match_call, filter_call, requests,
                     storage, create_call, upload_call>>

\* a direct call of ProgressService._calculate_completion_percentage
CalculateCompletionPercentage(requirement_matches) ==
    /\ score' = [pc |-> "done",
                 requirement_matches |-> requirement_matches,
                 percentage |-> calculate_completion_percentage(requirement_matches)]
    /\ UNCHANGED <<project_table, requirement_table, detection_table, call, summary,
                 match_call, filter_call, requests,
                 storage, create_call, upload_call>>

\* a direct call of ProgressService._generate_detection_summary
GenerateDetectionSummary(detections) ==
    /\ summary' = [pc |-> "done",
                   detections |-> detections,
                   detection_summary |-> generate_detection_summary(detections)]
    /\ UNCHANGED <<project_table, requirement_table, detection_table, call, score,
                 match_call, filter_call, requests,
                 storage, create_call, upload_call>>

\* Spec: progress requests against one stored project p1 (p2 does not exist).
\* The tables hold any rows, as the mocked projects of the service's unit
\* tests do: the service reads whatever the relationships return.
Init ==
    /\ project_table = {"p1"}
    /\ requirement_table \in SeqsUpTo(RequirementRows, MaxReqs)
    /\ detection_table \in SeqsUpTo(DetectionRows, MaxDets)
    /\ call = NoCall
    /\ score = NoScore
    /\ summary = NoSummary
    /\ match_call = NoMatchCall
    /\ filter_call = NoFilterCall
    /\ requests = NoRequests
    /\ storage = <<>>
    /\ create_call = NoCreateCall
    /\ upload_call = NoUploadCall

Next == \E project_id \in ProjectIds, db_fails \in BOOLEAN : GetProgress(project_id, db_fails)

Spec == Init /\ [][Next]_vars

\* SpecScore: the scoring function applied to arbitrary match lists
InitEmpty ==
    /\ project_table = {}
    /\ requirement_table = <<>>
    /\ detection_table = <<>>
    /\ call = NoCall
    /\ score = NoScore
    /\ summary = NoSummary
    /\ match_call = NoMatchCall
    /\ filter_call = NoFilterCall
    /\ requests = NoRequests
    /\ storage = <<>>
    /\ create_call = NoCreateCall
    /\ upload_call = NoUploadCall

NextScore ==
    \E requirement_matches \in SeqsUpTo(MatchRecords, MaxMatches) :
        CalculateCompletionPercentage(requirement_matches)

SpecScore == InitEmpty /\ [][NextScore]_vars

\* SpecRound: the percentage function applied to longer match lists, the
\* detected entries first; a quotient ends in a half hundredth only when the
\* length is a multiple of 32
MaxRoundTotal == 32

RECURSIVE Repeated(_, _)
Repeated(match, n) == IF n = 0 THEN <<>> ELSE Append(Repeated(match, n - 1), match)

MatchList(n_detected, n_total) ==
    Repeated(CHOOSE match \in MatchRecords : match.detected, n_detected)
        \o Repeated(CHOOSE match \in MatchRecords : ~match.detected, n_total - n_detected)

NextRound ==
    \E n_total \in 0..MaxRoundTotal :
        \E n_detected \in 0..n_total :
            CalculateCompletionPercentage(MatchList(n_detected, n_total))

SpecRound == InitEmpty /\ [][NextRound]_vars

\* SpecSummary: the summary function applied to arbitrary detection lists
NextSummary ==
    \E detections \in SeqsUpTo(DetectionRows, MaxSummaryDets) :
        GenerateDetectionSummary(detections)

SpecSummary == InitEmpty /\ [][NextSummary]_vars

\* SpecRaw: progress requests over stored rows whose names were written as
\* raw text: a detection name with surrounding whitespace, and two different
\* labels (sofa, couch) for one requirement
RawRequirementRows == [project_id : {"p1"}, object_name : {Sofa, Chair}]

RawDetectionRows ==
    { DetectionRow(PaddedChair, 920), DetectionRow(Chair, 780),
      DetectionRow(Sofa, 780), DetectionRow(Couch, 920) }

InitRaw ==
    /\ project_table = {"p1"}
    /\ requirement_table \in SeqsUpTo(RawRequirementRows, MaxReqs)
    /\ detection_table \in SeqsUpTo(RawDetectionRows, MaxDets)
    /\ call = NoCall
    /\ score = NoScore
    /\ summary = NoSummary
    /\ match_call = NoMatchCall
    /\ filter_call = NoFilterCall
    /\ requests = NoRequests
    /\ storage = <<>>
    /\ create_call = NoCreateCall
    /\ upload_call = NoUploadCall

SpecRaw == InitRaw /\ [][Next]_vars

\* SpecConcurrent: progress requests served by several workers, each with its
\* own database session and its own ProgressService, while uploads store
\* detections.  A request takes the steps of calculate_project_progress one
\* at a time; the project row and the two relationships are read when the
\* code first touches them.
MaxStoredDets == 2

RequestedIds == ProjectIds \cup {"p3"}

\* the rows an upload stores: DetectedObject name and confidence per project
StoredRows ==
    { [project_id |-> "p1", image_path |-> "img1", object_name |-> Chair, confidence |-> 920],
      [project_id |-> "p1", image_path |-> "img1", object_name |-> Couch, confidence |-> 780],
      [project_id |-> "p2", image_path |-> "img1", object_name |-> Chair, confidence |-> 780] }

InitConcurrent ==
    /\ project_table = ProjectIds
    /\ requirement_table =
           << [project_id |-> "p1", object_name |-> Chair],
              [project_id |-> "p2", object_name |-> Chair],
              [project_id |-> "p1", object_name |-> CHAIR] >>
    /\ detection_table = <<>>
    /\ call = NoCall
    /\ score = NoScore
    /\ summary = NoSummary
    /\ match_call = NoMatchCall
    /\ filter_call = NoFilterCall
    /\ requests = NoRequests
    /\ storage = <<>>
    /\ create_call = NoCreateCall
    /\ upload_call = NoUploadCall

\* the request ends: calculate_project_progress returns or raises
Finish(w, progress_data) ==
    requests' = [requests EXCEPT ![w].pc = "done", ![w].progress_data = progress_data]

DatabaseError(w) ==
    Finish(w, Raised(requests[w].project_id,
                     "Failed to calculate progress due to database error"))

\* the endpoint is called: ProgressService(db) is created for this request
StartRequest(w, project_id) ==
    /\ requests[w].pc = "idle"
    /\ requests' = [requests EXCEPT ![w].pc = "query", ![w].project_id = project_id]
    /\ UNCHANGED <<project_table, requirement_table, detection_table, call, score,
                   summary, match_call, filter_call,
                   storage, create_call, upload_call>>

\* project = self.db.query(Project).filter(Project.id == project_id).first()
QueryProject(w, db_fails) ==
    /\ requests[w].pc = "query"
    /\ IF db_fails THEN DatabaseError(w)
       ELSE IF requests[w].project_id \notin project_table
       THEN Finish(w, ReturnedNone(requests[w].project_id))
       ELSE requests' = [requests EXCEPT ![w].pc = "requirements"]
    /\ UNCHANGED <<project_table, requirement_table, detection_table, call, score,
                   summary, match_call, filter_call,
                   storage, create_call, upload_call>>

\* requirements = [req.object_name for req in project.requirements]
ReadRequirements(w, db_fails) ==
    /\ requests[w].pc = "requirements"
    /\ IF db_fails THEN DatabaseError(w)
       ELSE requests' = [requests EXCEPT
                ![w].pc = "detections",
                ![w].requirements = requirement_names(requests[w].project_id)]
    /\ UNCHANGED <<project_table, requirement_table, detection_table, call, score,
                   summary, match_call, filter_call,
                   storage, create_call, upload_call>>

\* detections = project.detections, then the early return `if not requirements`
ReadDetections(w, db_fails) ==
    /\ requests[w].pc = "detections"
    /\ IF db_fails THEN DatabaseError(w)
       ELSE IF requests[w].requirements = <<>>
       THEN requests' = [requests EXCEPT
                ![w].pc = "done",
                ![w].detections = project_detections(requests[w].project_id),
                ![w].progress_data =
                    build_progress_response(requests[w].project_id, 0, <<>>, EmptySummary)]
       ELSE requests' = [requests EXCEPT
                ![w].pc = "matches",
                ![w].detections = project_detections(requests[w].project_id)]
    /\ UNCHANGED <<project_table, requirement_table, detection_table, call, score,
                   summary, match_call, filter_call,
                   storage, create_call, upload_call>>

\* a variant of CalculateMatches that lower-cases the requirement list in place
CalculateMatches_lowering_in_place(w) ==
    /\ requests[w].pc = "matches"
    /\ requests' = [requests EXCEPT
           ![w].pc = "percentage",
           ![w].requirements =
               [i \in 1..Len(requests[w].requirements) |-> lower(requests[w].requirements[i])],
           ![w].requirement_matches =
               calculate_requirement_matches(requests[w].requirements,
                                             requests[w].detections)]
    /\ UNCHANGED <<project_table, requirement_table, detection_table, call, score,
                   summary, match_call, filter_call,
                   storage, create_call, upload_call>>

\* requirement_matches = self._calculate_requirement_matches(requirements, detections)
CalculateMatches(w) ==
    /\ requests[w].pc = "matches"
    /\ requests' = [requests EXCEPT
           ![w].pc = "percentage",
           ![w].requirement_matches =
               calculate_requirement_matches(requests[w].requirements,
                                             requests[w].detections)]
    /\ UNCHANGED <<project_table, requirement_table, detection_table, call, score,
                   summary, match_call, filter_call,
                   storage, create_call, upload_call>>

\* completion_percentage = self._calculate_completion_percentage(requirement_matches)
CalculatePercentage(w) ==
    /\ requests[w].pc = "percentage"
    /\ requests' = [requests EXCEPT
           ![w].pc = "summary",
           ![w].completion_percentage =
               calculate_completion_percentage(requests[w].requirement_matches)]
    /\ UNCHANGED <<project_table, requirement_table, detection_table, call, score,
                   summary, match_call, filter_call,
                   storage, create_call, upload_call>>

\* a variant of SummarizeAndReturn that summarizes the detections stored now,
\* not the list this request read
SummarizeAndReturn_stored_rows(w) ==
    /\ requests[w].pc = "summary"
    /\ LET detection_summary ==
               generate_detection_summary(project_detections(requests[w].project_id))
       IN  requests' = [requests EXCEPT
               ![w].pc = "done",
               ![w].detection_summary = detection_summary,
               ![w].progress_data =
                   build_progress_response(requests[w].project_id,
                                           requests[w].completion_percentage,
                                           requests[w].requirement_matches,
                                           detection_summary)]
    /\ UNCHANGED <<project_table, requirement_table, detection_table, call, score,
                   summary, match_call, filter_call,
                   storage, create_call, upload_call>>

\* detection_summary = self._generate_detection_summary(detections);
\* return ProgressResponse(...)
SummarizeAndReturn(w) ==
    /\ requests[w].pc = "summary"
    /\ LET detection_summary == generate_detection_summary(requests[w].detections)
       IN  requests' = [requests EXCEPT
               ![w].pc = "done",
               ![w].detection_summary = detection_summary,
               ![w].progress_data =
                   build_progress_response(requests[w].project_id,
                                           requests[w].completion_percentage,
                                           requests[w].requirement_matches,
                                           detection_summary)]
    /\ UNCHANGED <<project_table, requirement_table, detection_table, call, score,
                   summary, match_call, filter_call,
                   storage, create_call, upload_call>>

\* UploadService._store_detections of one detected object: add and commit
StoreDetections(row) ==
    /\ Len(detection_table) < MaxStoredDets
    /\ detection_table' = Append(detection_table, row)
    /\ UNCHANGED <<project_table, requirement_table, call, score, summary,
                   match_call, filter_call, requests,
                   storage, create_call, upload_call>>

NextConcurrent ==
    \/ \E w \in Workers, project_id \in RequestedIds : StartRequest(w, project_id)
    \/ \E w \in Workers, db_fails \in BOOLEAN : QueryProject(w, db_fails)
    \/ \E w \in Workers, db_fails \in BOOLEAN : ReadRequirements(w, db_fails)
    \/ \E w \in Workers, db_fails \in BOOLEAN : ReadDetections(w, db_fails)
    \/ \E w \in Workers : CalculateMatches(w)
    \/ \E w \in Workers : CalculatePercentage(w)
    \/ \E w \in Workers : SummarizeAndReturn(w)
    \/ \E row \in StoredRows : StoreDetections(row)

SpecConcurrent == InitConcurrent /\ [][NextConcurrent]_vars

\* SpecFilter: filter_relevant_objects applied to the detections of an image
\* and the requirement names as the caller passes them
MaxFilterDets == 3

MaxFilterReqs == 2

DetectedObject(name, confidence) == [name |-> name, confidence |-> confidence]

FilterDetections ==
    { DetectedObject(Couch, 780), DetectedObject(Chair, 920),
      DetectedObject(Chair, 780), DetectedObject(Person, 900) }

FilterRequirements == {Sofa, PaddedTitleChair, Seat, Blank}

\* the call is made with some detections and some requirement names
InitFilter ==
    /\ project_table = {}
    /\ requirement_table = <<>>
    /\ detection_table = <<>>
    /\ call = NoCall
    /\ score = NoScore
    /\ summary = NoSummary
    /\ match_call = NoMatchCall
    /\ filter_call \in [pc : {"called"},
                        detections : SeqsUpTo(FilterDetections, MaxFilterDets),
                        requirements : SeqsUpTo(FilterRequirements, MaxFilterReqs),
                        result : {<<>>}]
    /\ requests = NoRequests
    /\ storage = <<>>
    /\ create_call = NoCreateCall
    /\ upload_call = NoUploadCall

\* DetectionService.filter_relevant_objects runs and returns
FilterRelevantObjects ==
    /\ filter_call.pc = "called"
    /\ filter_call' = [filter_call EXCEPT
           !.pc = "done",
           !.result = filter_relevant_objects(filter_call.detections,
                                              filter_call.requirements)]
    /\ UNCHANGED <<project_table, requirement_table, detection_table, call, score,
                   summary, match_call, requests,
                   storage, create_call, upload_call>>

NextFilter == FilterRelevantObjects

SpecFilter == InitFilter /\ [][NextFilter]_vars

(***************************************************************************)
(* ProjectService                                                          *)
(***************************************************************************)
\* a variant of new_requirements that stores a repeated name only once
RECURSIVE new_requirements_distinct(_, _)
new_requirements_distinct(project_id, submitted) ==
    IF submitted = <<>> THEN <<>>
    ELSE LET front == new_requirements_distinct(project_id,
                                                SubSeq(submitted, 1, Len(submitted) - 1))
             row == [project_id |-> project_id,
                     object_name |-> lower(strip(submitted[Len(submitted)]))]
         IN  IF \E i \in DOMAIN front : front[i] = row THEN front
             ELSE Append(front, row)

\* the Requirement rows create_project adds, one per submitted name:
\* Requirement(project_id=project.id, object_name=req_name.strip().lower())
RECURSIVE new_requirements(_, _)
new_requirements(project_id, submitted) ==
    IF submitted = <<>> THEN <<>>
    ELSE <<[project_id |-> project_id, object_name |-> lower(strip(Head(submitted)))]>>
             \o new_requirements(project_id, Tail(submitted))

\* [req.object_name for req in requirements]
RECURSIVE object_names(_)
object_names(rows) ==
    IF rows = <<>> THEN <<>> ELSE <<Head(rows).object_name>> \o object_names(Tail(rows))

\* ProjectService.get_project: the requirements of the ProjectResponse, or None
get_project(project_id) ==
    IF project_id \notin project_table
    THEN [kind |-> "None", id |-> project_id, requirements |-> <<>>]
    ELSE [kind |-> "ProjectResponse", id |-> project_id,
          requirements |-> object_names(project_requirements(project_id))]

\* the database operations of create_project that can raise SQLAlchemyError
CreateFailures == {"nowhere", "flush", "commit", "refresh"}

\* ProjectService.create_project.  The new id is the uuid4 default of
\* Project.id; the model has as many ids as ProjectIds.
CreateProject(submitted, fails_at) ==
    /\ project_table # ProjectIds
    /\ LET project_id == CHOOSE id \in ProjectIds : id \notin project_table
           requirements == new_requirements(project_id, submitted)
           committed == fails_at \in {"nowhere", "refresh"}
       IN  /\ project_table' =
                  IF committed THEN project_table \cup {project_id} ELSE project_table
           /\ requirement_table' =
                  IF committed THEN requirement_table \o requirements
                  ELSE requirement_table
           /\ create_call' =
                  IF fails_at = "nowhere"
                  THEN [pc |-> "done", submitted |-> submitted, project_id |-> project_id,
                        kind |-> "ProjectResponse", message |-> "",
                        requirements |-> object_names(requirements)]
                  ELSE [pc |-> "done", submitted |-> submitted, project_id |-> project_id,
                        kind |-> "Exception",
                        message |-> "Failed to create project due to database error",
                        requirements |-> <<>>]
    /\ UNCHANGED <<detection_table, call, score, summary, match_call, filter_call,
                   requests, storage, upload_call>>

\* SpecCreate: projects are created from submitted requirement lists
MaxSubmitted == 2

SubmittedNames == {PaddedTitleChair, Chair, Sofa}

SubmittedLists == SeqsUpTo(SubmittedNames, MaxSubmitted) \ {<<>>}

NextCreate ==
    \E submitted \in SubmittedLists, fails_at \in CreateFailures :
        CreateProject(submitted, fails_at)

SpecCreate == InitEmpty /\ [][NextCreate]_vars

(***************************************************************************)
(* UploadService                                                           *)
(***************************************************************************)
\* self.allowed_extensions
allowed_extensions ==
    { <<".","j","p","g">>, <<".","j","p","e","g">>, <<".","p","n","g">>,
      <<".","b","m","p">>, <<".","t","i","f","f">> }

\* self.max_file_size, in bytes
max_file_size == 10485760

\* the limit of _validate_files on the number of files
max_files == 10

\* the status _validate_files raises, 0 when every file is accepted; the
\* suffix of a file is Path(file.filename).suffix
RECURSIVE validate_each(_)
validate_each(files) ==
    IF files = <<>> THEN 0
    ELSE IF lower(Head(files).suffix) \notin allowed_extensions THEN 400
    ELSE IF Head(files).size > max_file_size THEN 400
    ELSE IF Head(files).size = 0 THEN 400
    ELSE validate_each(Tail(files))

\* a variant of validate_files that only looks at the first file
validate_files_first_only(files) ==
    IF files = <<>> THEN 400
    ELSE IF Len(files) > max_files THEN 400
    ELSE validate_each(<<Head(files)>>)

\* UploadService._validate_files
validate_files(files) ==
    IF files = <<>> THEN 400
    ELSE IF Len(files) > max_files THEN 400
    ELSE validate_each(files)

\* the Detection rows _store_detections adds for one image
RECURSIVE detection_rows(_, _, _)
detection_rows(project_id, image_path, detected_objects) ==
    IF detected_objects = <<>> THEN <<>>
    ELSE <<[project_id |-> project_id, image_path |-> image_path,
            object_name |-> Head(detected_objects).name,
            confidence |-> Head(detected_objects).confidence]>>
             \o detection_rows(project_id, image_path, Tail(detected_objects))

\* a variant of store_detections whose failure leaves the rows added so far
\* (all but the last) in the table
store_detections_without_rollback(table, project_id, image_path, detected_objects, fails) ==
    LET rows == detection_rows(project_id, image_path, detected_objects)
    IN  IF fails
        THEN [table |-> table \o SubSeq(rows, 1, Len(rows) - 1), raised |-> TRUE]
        ELSE [table |-> table \o rows, raised |-> FALSE]

\* a variant of store_detections whose rollback also discards the rows of the
\* project stored before
store_detections_discarding_project(table, project_id, image_path, detected_objects, fails) ==
    IF fails
    THEN [table |-> SelectSeq(table, LAMBDA row : row.project_id # project_id),
          raised |-> TRUE]
    ELSE [table |-> table \o detection_rows(project_id, image_path, detected_objects),
          raised |-> FALSE]

\* UploadService._store_detections: add every row and commit, or roll back
\* and raise RuntimeError
store_detections(table, project_id, image_path, detected_objects, fails) ==
    IF fails
    THEN [table |-> table, raised |-> TRUE]
    ELSE [table |-> table \o detection_rows(project_id, image_path, detected_objects),
          raised |-> FALSE]

\* the paths _save_file generates (uuid4 names): all different
ImagePaths ==
    <<"img1", "img2", "img3", "img4", "img5", "img6",
      "img7", "img8", "img9", "img10", "img11", "img12">>

\* what process_uploads has built before it handles the first file
NoProgressYet(table, saved) ==
    [table |-> table, saved |-> saved, uploaded_files |-> <<>>,
     detection_results |-> <<>>, total_objects |-> 0]

\* a variant of process_file that counts the detected objects, not the
\* relevant ones
process_file_counting_all(project_id, requirements, file, acc) ==
    IF file.fault = "save" THEN acc
    ELSE LET image_path == ImagePaths[Len(acc.saved) + 1]
             saved == [acc EXCEPT !.saved = Append(acc.saved, image_path),
                                  !.uploaded_files = Append(acc.uploaded_files, image_path)]
             relevant_objects == filter_relevant_objects(file.objects, requirements)
             stored == store_detections(acc.table, project_id, image_path,
                                        relevant_objects, file.fault = "store")
         IN  IF file.fault = "detect" THEN saved
             ELSE IF stored.raised THEN [saved EXCEPT !.table = stored.table]
             ELSE [saved EXCEPT
                      !.table = stored.table,
                      !.detection_results =
                          Append(acc.detection_results,
                                 [image_path |-> image_path, filename |-> file.filename,
                                  detected_objects |-> relevant_objects]),
                      !.total_objects = acc.total_objects + Len(file.objects)]

\* one iteration of the loop of process_uploads.  file.fault says which step
\* raises for this file: "save" (_save_file), "detect" (detect_objects),
\* "store" (_store_detections) or "none"; the exception is caught and the
\* loop continues
process_file(project_id, requirements, file, acc) ==
    IF file.fault = "save" THEN acc
    ELSE LET image_path == ImagePaths[Len(acc.saved) + 1]
             saved == [acc EXCEPT !.saved = Append(acc.saved, image_path),
                                  !.uploaded_files = Append(acc.uploaded_files, image_path)]
             relevant_objects == filter_relevant_objects(file.objects, requirements)
             stored == store_detections(acc.table, project_id, image_path,
                                        relevant_objects, file.fault = "store")
         IN  IF file.fault = "detect" THEN saved
             ELSE IF stored.raised THEN [saved EXCEPT !.table = stored.table]
             ELSE [saved EXCEPT
                      !.table = stored.table,
                      !.detection_results =
                          Append(acc.detection_results,
                                 [image_path |-> image_path, filename |-> file.filename,
                                  detected_objects |-> relevant_objects]),
                      !.total_objects = acc.total_objects + Len(relevant_objects)]

\* a variant of process_files without the try/except inside the loop: the
\* first failing file ends the processing of the batch
RECURSIVE process_files_stopping_at_failure(_, _, _, _)
process_files_stopping_at_failure(project_id, requirements, files, acc) ==
    IF files = <<>> THEN acc
    ELSE IF Head(files).fault # "none"
    THEN process_file(project_id, requirements, Head(files), acc)
    ELSE process_files_stopping_at_failure(
             project_id, requirements, Tail(files),
             process_file(project_id, requirements, Head(files), acc))

\* for file in validated_files: ...
RECURSIVE process_files(_, _, _, _)
process_files(project_id, requirements, files, acc) ==
    IF files = <<>> THEN acc
    ELSE process_files(project_id, requirements, Tail(files),
                       process_file(project_id, requirements, Head(files), acc))

\* a process_uploads call that raised HTTPException(status)
Rejected(project_id, files, status) ==
    [pc |-> "done", calls |-> upload_call.calls + 1, project_id |-> project_id,
     files |-> files, status |-> status, uploaded_files |-> <<>>,
     detection_results |-> <<>>, total_objects_detected |-> 0,
     processing_summary_total |-> 0]

\* UploadService.process_uploads; db_fails: the project query raises
ProcessUploads(project_id, files, db_fails) ==
    /\ upload_call.pc = "idle"
    /\ Len(storage) + Len(files) <= Len(ImagePaths)
    /\ LET status == IF db_fails THEN 500
                     ELSE IF project_id \notin project_table THEN 404
                     ELSE validate_files(files)
           done == process_files(project_id,
                                 object_names(project_requirements(project_id)),
                                 files, NoProgressYet(detection_table, storage))
       IN  IF status # 0
           THEN /\ upload_call' = Rejected(project_id, files, status)
                /\ UNCHANGED <<detection_table, storage>>
           ELSE /\ detection_table' = done.table
                /\ storage' = done.saved
                /\ upload_call' =
                       [pc |-> "done", calls |-> upload_call.calls + 1,
                        project_id |-> project_id, files |-> files, status |-> 200,
                        uploaded_files |-> done.uploaded_files,
                        detection_results |-> done.detection_results,
                        total_objects_detected |-> done.total_objects,
                        processing_summary_total |-> done.total_objects]
    /\ UNCHANGED <<project_table, requirement_table, call, score, summary, match_call,
                   filter_call, requests, create_call>>

\* SpecUpload: one call of process_uploads for a project that create_project
\* stored and that earlier calls uploaded pictures to, with progress requested
\* before and after it
MaxFiles == 2
MaxEarlierFiles == 1

\* what the detector finds in the uploaded picture
PictureObjects ==
    <<DetectedObject(Chair, 920), DetectedObject(Person, 900), DetectedObject(Couch, 780)>>

UploadFile(filename, suffix, size, fault) ==
    [filename |-> filename, suffix |-> suffix, size |-> size,
     objects |-> PictureObjects, fault |-> fault]

\* valid pictures, one per step that can fail, and the three kinds of file
\* that validation refuses
ValidPictures ==
    { UploadFile("room.JPG", <<".","J","P","G">>, max_file_size, fault) :
          fault \in {"none", "save", "detect", "store"} }

UploadFiles ==
    ValidPictures
    \cup { UploadFile("notes.txt", <<".","t","x","t">>, 1024, "none"),
           UploadFile("empty.jpg", <<".","j","p","g">>, 0, "none"),
           UploadFile("large.jpg", <<".","j","p","g">>, max_file_size + 1, "none") }

UploadBatches ==
    SeqsUpTo(UploadFiles, MaxFiles)
        \cup {Repeated(UploadFile("room.JPG", <<".","J","P","G">>, 1024, "none"),
                        max_files + 1)}

\* the requirement lists of the stored project p1, as create_project stores them
StoredRequirementLists == {<<Sofa>>, <<Chair>>, <<Sofa, Chair>>}

\* the accepted batches uploaded to p1 by the calls made before
EarlierUploads == SeqsUpTo(ValidPictures, MaxEarlierFiles)

InitUpload ==
    /\ project_table = {"p1"}
    /\ \E names \in StoredRequirementLists :
           requirement_table = new_requirements("p1", names)
    /\ \E files \in EarlierUploads :
           LET done == process_files("p1", object_names(requirement_table), files,
                                     NoProgressYet(<<>>, <<>>))
           IN  /\ detection_table = done.table
               /\ storage = done.saved
    /\ call = NoCall
    /\ score = NoScore
    /\ summary = NoSummary
    /\ match_call = NoMatchCall
    /\ filter_call = NoFilterCall
    /\ requests = NoRequests
    /\ create_call = NoCreateCall
    /\ upload_call = NoUploadCall

NextUpload ==
    \/ \E project_id \in ProjectIds, files \in UploadBatches, db_fails \in BOOLEAN :
           ProcessUploads(project_id, files, db_fails)
    \/ \E project_id \in ProjectIds : GetProgress(project_id, FALSE)

SpecUpload == InitUpload /\ [][NextUpload]_vars

\* a direct call of DetectionService._objects_match
ObjectsMatch(detected_name, required_name) ==
    /\ match_call' = [pc |-> "done",
                      detected_name |-> detected_name,
                      required_name |-> required_name,
                      result |-> objects_match(detected_name, required_name)]
    /\ UNCHANGED <<project_table, requirement_table, detection_table, call, score,
                   summary, filter_call, requests,
                   storage, create_call, upload_call>>

\* the names handed to _objects_match: those of the synonym table, a compound
\* name, a label outside the table and the blank requirement ("  ".strip())
MatchNames ==
    UNION synonyms \cup {TableLamp, Person, EmptyName}

\* SpecMatch: the name-matching function applied to every pair of names
NextMatch ==
    \E detected_name \in MatchNames, required_name \in MatchNames :
        ObjectsMatch(detected_name, required_name)

SpecMatch == InitEmpty /\ [][NextMatch]_vars

(***************************************************************************)
(* Vocabulary of the properties                                            *)
(***************************************************************************)
\* the canonical name: trimmed and lower-cased
Normalize(name) == lower(strip(name))

\* the orderings of a list of n elements
Orderings(n) == {f \in [1..n -> 1..n] : \A i, j \in 1..n : f[i] = f[j] => i = j}

Reordered(xs, f) == [i \in 1..Len(xs) |-> xs[f[i]]]

\* a progress request that was answered with a ProgressResponse
Answered == call.pc = "done" /\ call.progress_data.kind = "ProgressResponse"

\* the positions of the detections whose canonical name is name
SameName(detections, name) ==
    {j \in DOMAIN detections : Normalize(detections[j].object_name) = name}

\* the largest confidence among the detections at the positions js
MaxConfidence(detections, js) ==
    CHOOSE c \in {detections[j].confidence : j \in js} :
        \A j \in js : detections[j].confidence <= c

\* the number of matches reported as detected
DetectedMatches(matches) == Cardinality({i \in DOMAIN matches : matches[i].detected})

(***************************************************************************)
(* C1: a requirement is reported detected exactly when some detected name  *)
(* matches it under the name-matching rule (equality, synonym group,       *)
(* substring), and then carries the maximum confidence and the count of a  *)
(* matching name.                                                          *)
(***************************************************************************)
C1_DetectedIffNameRuleMatches ==
    Answered =>
        \A i \in DOMAIN call.requirements :
            LET m == call.progress_data.requirement_matches[i]
                required == Normalize(call.requirements[i])
                names == {Normalize(call.detections[j].object_name) :
                              j \in DOMAIN call.detections}
                matching == {n \in names : objects_match(n, required)}
            IN  /\ m.detected <=> matching # {}
                /\ m.detected =>
                      \E n \in matching :
                          LET js == SameName(call.detections, n)
                          IN  /\ m.confidence = Some(MaxConfidence(call.detections, js))
                              /\ m.count = Cardinality(js)

(***************************************************************************)
(* C2: the completion percentage of a match list is 100 * detected / total *)
(* rounded to 2 decimal places (no hundredth is nearer to the quotient),   *)
(* and 0.0 for the empty list.                                             *)
(***************************************************************************)
C2_PercentageIsRoundedRatio ==
    score.pc = "done" =>
        LET total == Len(score.requirement_matches)
            detected == DetectedMatches(score.requirement_matches)
            error == detected * 10000 - score.percentage * total
        IN  IF total = 0 THEN score.percentage = 0
            ELSE 2 * error <= total /\ -2 * error <= total

C2_Witness ==
    /\ score.pc = "done"
    /\ Len(score.requirement_matches) = 3
    /\ DetectedMatches(score.requirement_matches) = 2
    /\ score.percentage = 6667

(***************************************************************************)
(* C3: the completion percentage of every answered request lies in         *)
(* [0.0, 100.0], and building the ProgressResponse never fails on its      *)
(* range check.                                                            *)
(***************************************************************************)
C3_PercentageInRange ==
    call.pc = "done" =>
        /\ call.progress_data.message # "Failed to calculate progress"
        /\ Answered =>
              /\ call.progress_data.completion_percentage >= 0
              /\ call.progress_data.completion_percentage <= 10000

C3_Witness ==
    /\ Answered
    /\ call.progress_data.completion_percentage = 10000
    /\ \E i \in DOMAIN call.progress_data.requirement_matches :
           call.progress_data.requirement_matches[i].count = 2

C5_ConfidenceAndCountFollowDetected ==
    Answered =>
        \A i \in DOMAIN call.progress_data.requirement_matches :
            LET m == call.progress_data.requirement_matches[i]
            IN  /\ (m.confidence # None) <=> m.detected
                /\ m.detected =>
                      /\ Len(m.confidence) = 1
                      /\ m.confidence[1] >= 0
                      /\ m.confidence[1] <= 1000
                /\ m.count \in Nat
                /\ (m.count = 0) <=> ~m.detected

C5_Witness ==
    /\ Answered
    /\ \E i, j \in DOMAIN call.progress_data.requirement_matches :
           /\ call.progress_data.requirement_matches[i].detected
           /\ ~call.progress_data.requirement_matches[j].detected

(***************************************************************************)
(* C6: the match list has one entry per requirement, in requirement order, *)
(* the i-th entry carrying the i-th requirement's original text;           *)
(* duplicate requirement names each get their own entry, with the same     *)
(* detected, confidence and count.                                         *)
(***************************************************************************)
C6_OneMatchPerRequirementInOrder ==
    Answered =>
        LET matches == call.progress_data.requirement_matches
        IN  /\ Len(matches) = Len(call.requirements)
            /\ \A i \in DOMAIN call.requirements :
                   matches[i].requirement = call.requirements[i]
            /\ \A i, j \in DOMAIN call.requirements :
                   call.requirements[i] = call.requirements[j] =>
                       /\ matches[i].detected = matches[j].detected
                       /\ matches[i].confidence = matches[j].confidence
                       /\ matches[i].count = matches[j].count

C6_Witness ==
    /\ Answered
    /\ Len(call.requirements) = 2
    /\ call.requirements[1] = CHAIR
    /\ call.requirements[2] = CHAIR
    /\ call.progress_data.requirement_matches[1].detected
    /\ call.progress_data.requirement_matches[2].count = 1

(***************************************************************************)
(* C7: for a project without requirements the result has percentage 0.0,   *)
(* no matches, and a detection summary computed from the project's         *)
(* detections: their number, their distinct names, their mean confidence.  *)
(***************************************************************************)
C7_SummaryComputedWithoutRequirements ==
    Answered /\ call.requirements = <<>> =>
        LET detections == call.detections
            s == call.progress_data.detection_summary
        IN  /\ call.progress_data.completion_percentage = 0
            /\ call.progress_data.requirement_matches = <<>>
            /\ s.total_objects_detected = Len(detections)
            /\ {s.unique_objects[i] : i \in DOMAIN s.unique_objects}
                   = {detections[j].object_name : j \in DOMAIN detections}
            /\ detections # <<>> =>
                   LET total == sum([j \in 1..Len(detections) |->
                                        detections[j].confidence])
                       error == total - s.average_confidence * Len(detections)
                   IN  2 * error <= Len(detections) /\ -2 * error <= Len(detections)

(***************************************************************************)
(* C8: unique_objects of a summary is the set of distinct original         *)
(* detection names in ascending lexicographic order without duplicates,    *)
(* the same for every ordering of the detections, and                      *)
(* total_objects_detected is the number of detections.                     *)
(***************************************************************************)
C8_UniqueObjectsSortedDistinct ==
    summary.pc = "done" =>
        LET detections == summary.detections
            unique == summary.detection_summary.unique_objects
        IN  /\ summary.detection_summary.total_objects_detected = Len(detections)
            /\ {unique[i] : i \in DOMAIN unique}
                   = {detections[j].object_name : j \in DOMAIN detections}
            /\ \A i, j \in DOMAIN unique : i < j => str_lt(unique[i], unique[j])
            /\ \A f \in Orderings(Len(detections)) :
                   generate_detection_summary(Reordered(detections, f)).unique_objects
                       = unique

C8_Witness ==
    /\ summary.pc = "done"
    /\ Len(summary.detections) = 3
    /\ summary.detections[1].object_name = Chair
    /\ summary.detections[2].object_name = CHAIR
    /\ summary.detections[3].object_name = Chair
    /\ summary.detection_summary.unique_objects = <<CHAIR, Chair>>

DetectedAfterAdding(d) ==
    DetectedMatches(
        calculate_requirement_matches(call.requirements, Append(call.detections, d)))

\* the requirement entries not detected so far that have the canonical name
\* of detection d
UndetectedWithNameOf(d) ==
    {i \in DOMAIN call.requirements :
        /\ ~call.progress_data.requirement_matches[i].detected
        /\ Normalize(call.requirements[i]) = Normalize(d.object_name)}

SynonymTable ==
    { {Couch, Sofa}, {Tv, Television}, {Table, DiningTable}, {Chair, Seat},
      {Bed, Bedroom}, {Lamp, Light}, {Fan, CeilingFan} }

\* part occurs in whole: whole is some prefix, then part, then some suffix
Contains(whole, part) ==
    \E start \in 0..Len(whole) :
        /\ start + Len(part) <= Len(whole)
        /\ \A k \in 1..Len(part) : whole[start + k] = part[k]

C11_MatchIffEqualSynonymOrSubstring ==
    match_call.pc = "done" =>
        LET d == match_call.detected_name
            r == match_call.required_name
        IN  /\ match_call.result \in BOOLEAN
            /\ match_call.result <=>
                  \/ d = r
                  \/ \E group \in SynonymTable : d \in group /\ r \in group
                  \/ Contains(d, r)
                  \/ Contains(r, d)

C11_Witness ==
    /\ match_call.pc = "done"
    /\ match_call.detected_name = Table
    /\ match_call.required_name = TableLamp
    /\ match_call.result

(***************************************************************************)
(* C12: the substring step needs a non-empty contained name: an empty name *)
(* does not match a different, non-empty name.                             *)
(***************************************************************************)
C12_EmptyNameMatchesNothingElse ==
    match_call.pc = "done" =>
        LET d == match_call.detected_name
            r == match_call.required_name
        IN  (d # r /\ (d = EmptyName \/ r = EmptyName)) => ~match_call.result

(***************************************************************************)
(* C13: progress matching compares trimmed, lower-cased names: detections  *)
(* whose names differ only in case or surrounding whitespace form one      *)
(* group, and a requirement is detected by a detection whose name equals   *)
(* it after trimming and lower-casing.                                     *)
(***************************************************************************)
C13_ComparedAfterTrimAndLower ==
    Answered =>
        \A i \in DOMAIN call.requirements :
            LET m == call.progress_data.requirement_matches[i]
                equal_after_normalizing ==
                    {j \in DOMAIN call.detections :
                        Normalize(call.detections[j].object_name)
                            = Normalize(call.requirements[i])}
            IN  /\ equal_after_normalizing # {} => m.detected
                /\ m.detected => m.count = Cardinality(equal_after_normalizing)

(***************************************************************************)
(* C14: when several distinct detected names satisfy one requirement, the  *)
(* reported confidence and count are those of the name with the highest    *)
(* maximum confidence, ties broken by the lexicographic order of the name. *)
(***************************************************************************)
\* the detected names that satisfy a requirement under the name rule
SatisfyingNames(detections, requirement) ==
    {n \in {Normalize(detections[j].object_name) : j \in DOMAIN detections} :
        objects_match(n, Normalize(requirement))}

\* the documented tie-break among the names
PreferredName(detections, names) ==
    CHOOSE n \in names :
        \A other \in names \ {n} :
            LET c == MaxConfidence(detections, SameName(detections, n))
                d == MaxConfidence(detections, SameName(detections, other))
            IN  c > d \/ (c = d /\ str_lt(n, other))

C14_HighestConfidenceNameChosen ==
    Answered =>
        \A i \in DOMAIN call.requirements :
            LET m == call.progress_data.requirement_matches[i]
                names == SatisfyingNames(call.detections, call.requirements[i])
                js == SameName(call.detections, PreferredName(call.detections, names))
            IN  Cardinality(names) >= 2 =>
                    /\ m.detected
                    /\ m.confidence = Some(MaxConfidence(call.detections, js))
                    /\ m.count = Cardinality(js)

(***************************************************************************)
(* C15: the completion percentage is rounded half-up: when                 *)
(* 100 * detected / total lies exactly halfway between two hundredths, the *)
(* result is the upper one.                                                *)
(***************************************************************************)
C15_TiesRoundedUpward ==
    score.pc = "done" =>
        LET total == Len(score.requirement_matches)
            hundredths == DetectedMatches(score.requirement_matches) * 10000
        IN  (total > 0 /\ 2 * (hundredths % total) = total) =>
                score.percentage = (hundredths \div total) + 1

(***************************************************************************)
(* C16: for a non-empty detection list average_confidence is the mean of   *)
(* all detection confidences, every detection counted once, rounded to 3   *)
(* decimal places; for the empty list it is 0.0 with total 0 and no unique *)
(* objects.                                                                *)
(***************************************************************************)
\* the sum of the confidences at the positions js
RECURSIVE ConfidenceTotal(_, _)
ConfidenceTotal(detections, js) ==
    IF js = {} THEN 0
    ELSE LET j == CHOOSE k \in js : TRUE
         IN  detections[j].confidence + ConfidenceTotal(detections, js \ {j})

C16_AverageIsRoundedMean ==
    summary.pc = "done" =>
        LET n == Len(summary.detections)
            average == summary.detection_summary.average_confidence
            distance == average * n
                            - ConfidenceTotal(summary.detections, DOMAIN summary.detections)
        IN  IF n = 0
            THEN /\ average = 0
                 /\ summary.detection_summary.total_objects_detected = 0
                 /\ summary.detection_summary.unique_objects = <<>>
            ELSE -n <= 2 * distance /\ 2 * distance <= n

C16_Witness ==
    /\ summary.pc = "done"
    /\ Len(summary.detections) = 3
    /\ summary.detections[1].confidence = 780
    /\ summary.detections[2].confidence = 920
    /\ summary.detections[3].confidence = 780
    /\ summary.detection_summary.average_confidence = 827

(***************************************************************************)
(* C17: a progress computation changes nothing: no step of it changes the  *)
(* stored projects, requirements or detections, and the requirement and    *)
(* detection lists handed to the matching and summary steps stay as they   *)
(* were read.                                                              *)
(***************************************************************************)
C17_ProgressChangesNothing ==
    [][\A w \in Workers :
          requests'[w] # requests[w] =>
              /\ UNCHANGED <<project_table, requirement_table, detection_table>>
              /\ requests[w].pc \in {"matches", "percentage", "summary"} =>
                    /\ requests'[w].requirements = requests[w].requirements
                    /\ requests'[w].detections = requests[w].detections]_vars

C17_Witness ==
    \E w \in Workers :
        /\ requests[w].pc = "done"
        /\ requests[w].progress_data.kind = "ProgressResponse"
        /\ requests[w].requirements = <<Chair, CHAIR>>
        /\ Len(requests[w].detections) = 2
        /\ requirement_names(requests[w].project_id) = requests[w].requirements
        /\ project_detections(requests[w].project_id) = requests[w].detections

(***************************************************************************)
(* C18: however the steps of several progress computations and uploads    *)
(* interleave, each computation returns the result of a computation run    *)
(* alone on the requirement and detection lists it read, and two           *)
(* computations on identical inputs return identical results.              *)
(***************************************************************************)
Responded(w) ==
    requests[w].pc = "done" /\ requests[w].progress_data.kind = "ProgressResponse"

C18_InterleavingIsInvisible ==
    /\ \A w \in Workers :
          Responded(w) =>
              requests[w].progress_data
                  = progress_of(requests[w].project_id, requests[w].requirements,
                                requests[w].detections)
    /\ \A v, w \in Workers :
          ( /\ Responded(v) /\ Responded(w)
            /\ requests[v].requirements = requests[w].requirements
            /\ requests[v].detections = requests[w].detections )
          => /\ requests[v].progress_data.completion_percentage
                    = requests[w].progress_data.completion_percentage
             /\ requests[v].progress_data.requirement_matches
                    = requests[w].progress_data.requirement_matches
             /\ requests[v].progress_data.detection_summary
                    = requests[w].progress_data.detection_summary

C18_Witness ==
    /\ Responded("w1") /\ Responded("w2")
    /\ requests["w1"].project_id = "p1" /\ requests["w2"].project_id = "p1"
    /\ Len(requests["w1"].detections) = 1
    /\ Len(requests["w2"].detections) = 2
    /\ requests["w1"].progress_data.detection_summary.total_objects_detected = 1
    /\ requests["w2"].progress_data.detection_summary.total_objects_detected = 2

(***************************************************************************)
(* C19: a progress request for a project that does not exist never yields  *)
(* a progress result: the service returns None and the endpoint answers    *)
(* 404, not 500; a failure inside the service is answered with 500.        *)
(***************************************************************************)
C19_NotFoundIs404FailureIs500 ==
    call.pc = "done" =>
        LET kind == call.progress_data.kind
        IN  /\ call.project_id \notin project_table =>
                /\ kind # "ProgressResponse"
                /\ kind = "None" \/ kind = "Exception"
            /\ kind = "None" =>
                /\ call.project_id \notin project_table
                /\ call.status = 404
            /\ kind = "Exception" => call.status = 500
            /\ call.status \in {200, 404, 500}
            /\ call.status = 200 <=> kind = "ProgressResponse"

C19_Witness ==
    /\ call.pc = "done"
    /\ call.project_id = "p2"
    /\ call.project_id \notin project_table
    /\ call.progress_data.kind = "None"
    /\ call.status = 404

(***************************************************************************)
(* C20: filter_relevant_objects returns exactly the detections that match  *)
(* at least one requirement (the requirement trimmed and lower-cased, the  *)
(* match by equality, synonym group or substring), in their original       *)
(* order, each once however many requirements it matches.                  *)
(***************************************************************************)
\* the name rule as the specification words it
NameRule(detected_name, required_name) ==
    \/ detected_name = required_name
    \/ \E group \in SynonymTable : detected_name \in group /\ required_name \in group
    \/ Contains(detected_name, required_name)
    \/ Contains(required_name, detected_name)

\* the positions of the detections that match some requirement
RelevantPositions(detections, requirements) ==
    {j \in DOMAIN detections :
        \E i \in DOMAIN requirements :
            NameRule(detections[j].name, Normalize(requirements[i]))}

C20_FilterKeepsMatchingInOrderOnce ==
    filter_call.pc = "done" =>
        LET kept == RelevantPositions(filter_call.detections, filter_call.requirements)
            result == filter_call.result
        IN  /\ Len(result) = Cardinality(kept)
            /\ \E position \in [DOMAIN result -> kept] :
                  /\ \A a, b \in DOMAIN result : a < b => position[a] < position[b]
                  /\ \A a \in DOMAIN result :
                        result[a] = filter_call.detections[position[a]]

C20_Witness ==
    /\ filter_call.pc = "done"
    /\ filter_call.requirements = <<PaddedTitleChair, Seat>>
    /\ filter_call.detections
           = <<DetectedObject(Person, 900), DetectedObject(Chair, 920),
               DetectedObject(Couch, 780)>>
    /\ filter_call.result = <<DetectedObject(Chair, 920)>>

(***************************************************************************)
(* C29: name matching is reflexive and symmetric: a name matches itself,   *)
(* and swapping the detected and the required name gives the same answer.  *)
(***************************************************************************)
C29_MatchReflexiveSymmetric ==
    match_call.pc = "done" =>
        /\ objects_match(match_call.detected_name, match_call.detected_name)
        /\ objects_match(match_call.required_name, match_call.required_name)
        /\ match_call.result
              = objects_match(match_call.required_name, match_call.detected_name)
        /\ match_call.detected_name = match_call.required_name => match_call.result

C29_Witness ==
    /\ match_call.pc = "done"
    /\ match_call.detected_name = TableLamp
    /\ match_call.required_name = Table
    /\ match_call.result
    /\ objects_match(Table, TableLamp)

(***************************************************************************)
(* C23: project creation is atomic: when create_project fails at any step, *)
(* neither the Project nor any of its Requirement rows is persisted; when  *)
(* it succeeds, the project and all its requirements are persisted.        *)
(***************************************************************************)
C23_CreationAllOrNothing ==
    create_call.pc = "done" =>
        LET stored == project_requirements(create_call.project_id)
        IN  IF create_call.kind = "Exception"
            THEN create_call.project_id \notin project_table /\ stored = <<>>
            ELSE /\ create_call.project_id \in project_table
                 /\ Len(stored) = Len(create_call.submitted)

(***************************************************************************)
(* C24: create_project stores one requirement per submitted name, trimmed  *)
(* and lower-cased, in submission order, duplicates kept; the returned     *)
(* list and a later retrieval give the same names.                         *)
(***************************************************************************)
C24_OneNormalizedRequirementPerName ==
    (create_call.pc = "done" /\ create_call.kind = "ProjectResponse") =>
        LET submitted == create_call.submitted
            returned == create_call.requirements
        IN  /\ Len(returned) = Len(submitted)
            /\ \A i \in DOMAIN submitted : returned[i] = Normalize(submitted[i])
            /\ get_project(create_call.project_id).kind = "ProjectResponse"
            /\ get_project(create_call.project_id).requirements = returned

C24_Witness ==
    /\ create_call.pc = "done"
    /\ create_call.kind = "ProjectResponse"
    /\ create_call.submitted = <<PaddedTitleChair, Chair>>
    /\ create_call.requirements = <<Chair, Chair>>
    /\ get_project(create_call.project_id).requirements = <<Chair, Chair>>

(***************************************************************************)
(* C21: process_uploads rejects the whole batch before touching storage:   *)
(* 404 for a missing project, 400 for an empty batch, more than 10 files,  *)
(* or any file with an unsupported extension, more than 10 MB or size 0;   *)
(* then no file is saved and no Detection is stored.                       *)
(***************************************************************************)
\* the batch has a defect that the validation names
BadBatch(files) ==
    \/ files = <<>>
    \/ Len(files) > 10
    \/ \E i \in DOMAIN files :
          \/ lower(files[i].suffix) \notin allowed_extensions
          \/ files[i].size > 10 * 1024 * 1024
          \/ files[i].size = 0

C21_RejectedBatchTouchesNothing ==
    [][upload_call' # upload_call =>
          LET made == upload_call'
          IN  /\ made.status # 500 =>
                    /\ made.project_id \notin project_table => made.status = 404
                    /\ (made.project_id \in project_table /\ BadBatch(made.files))
                           => made.status = 400
              /\ made.status \in {400, 404} =>
                    /\ UNCHANGED <<detection_table, storage>>
                    /\ made.uploaded_files = <<>>
                    /\ made.detection_results = <<>>]_vars

C21_Witness ==
    /\ upload_call.pc = "done"
    /\ upload_call.status = 400
    /\ Len(upload_call.files) = 2
    /\ upload_call.files[1].fault = "none"
    /\ upload_call.files[1].size = max_file_size
    /\ upload_call.files[2].size = 0
    /\ storage = <<>>
    /\ detection_table = <<>>

(***************************************************************************)
(* C22: storing the detections of one image is all-or-nothing: either one  *)
(* Detection per relevant object is stored, or, when storing fails, none   *)
(* of that image; the detections of earlier images stay stored.            *)
(***************************************************************************)
\* the files of the batch that were saved, in order: one per uploaded path
SavedFiles(files) == SelectSeq(files, LAMBDA file : file.fault # "save")

\* the stored rows of one image, in table order
RowsOfImage(table, image_path) ==
    SelectSeq(table, LAMBDA row : row.image_path = image_path)

C22_StoreAllOrNothing ==
    [][(upload_call' # upload_call /\ upload_call'.status = 200) =>
          LET made == upload_call'
              saved == SavedFiles(made.files)
              requirements == object_names(project_requirements(made.project_id))
          IN  /\ SubSeq(detection_table', 1, Len(detection_table)) = detection_table
              /\ Len(saved) = Len(made.uploaded_files)
              /\ \A k \in DOMAIN saved :
                    LET rows == RowsOfImage(detection_table', made.uploaded_files[k])
                        objects == filter_relevant_objects(saved[k].objects, requirements)
                    IN  IF saved[k].fault = "none"
                        THEN /\ Len(rows) = Len(objects)
                             /\ \A j \in DOMAIN rows :
                                   /\ rows[j].object_name = objects[j].name
                                   /\ rows[j].confidence = objects[j].confidence
                                   /\ rows[j].project_id = made.project_id
                        ELSE rows = <<>>]_vars

C22_Witness ==
    /\ upload_call.pc = "done"
    /\ upload_call.status = 200
    /\ Len(upload_call.files) = 2
    /\ upload_call.files[1].fault = "none"
    /\ upload_call.files[2].fault = "store"
    /\ Len(RowsOfImage(detection_table, upload_call.uploaded_files[1])) = 2
    /\ RowsOfImage(detection_table, upload_call.uploaded_files[2]) = <<>>

(***************************************************************************)
(* C25: a failure while saving, detecting or storing one file does not     *)
(* abort the batch: the call still returns a response, every other file is *)
(* processed in order with its detections stored, and the failing file has *)
(* no entry in detection_results and no stored Detection.                  *)
(***************************************************************************)
C25_FailingFileDoesNotAbortBatch ==
    ( /\ upload_call.pc = "done"
      /\ upload_call.status # 500
      /\ upload_call.project_id \in project_table
      /\ ~BadBatch(upload_call.files) )
    => LET results == upload_call.detection_results
           processed == SelectSeq(upload_call.files, LAMBDA file : file.fault = "none")
           requirements == object_names(project_requirements(upload_call.project_id))
       IN  /\ upload_call.status = 200
           /\ Len(results) = Len(processed)
           /\ \A k \in DOMAIN results :
                 /\ results[k].filename = processed[k].filename
                 /\ results[k].detected_objects
                        = filter_relevant_objects(processed[k].objects, requirements)
                 /\ Len(RowsOfImage(detection_table, results[k].image_path))
                        = Len(results[k].detected_objects)
                 /\ \A earlier \in DOMAIN results :
                       earlier < k =>
                           \E a, b \in DOMAIN upload_call.uploaded_files :
                               /\ a < b
                               /\ upload_call.uploaded_files[a] = results[earlier].image_path
                               /\ upload_call.uploaded_files[b] = results[k].image_path
           /\ \A a \in DOMAIN upload_call.uploaded_files :
                 (\A k \in DOMAIN results :
                      results[k].image_path # upload_call.uploaded_files[a])
                 => RowsOfImage(detection_table, upload_call.uploaded_files[a]) = <<>>

C25_Witness ==
    /\ upload_call.pc = "done"
    /\ upload_call.status = 200
    /\ Len(upload_call.files) = 2
    /\ upload_call.files[1].fault = "detect"
    /\ upload_call.files[2].fault = "none"
    /\ Len(upload_call.uploaded_files) = 2
    /\ Len(upload_call.detection_results) = 1
    /\ upload_call.detection_results[1].image_path = upload_call.uploaded_files[2]
    /\ Len(upload_call.detection_results[1].detected_objects) = 2

(***************************************************************************)
(* C26: every Detection stored for a project matches, by equality, synonym *)
(* group or substring, at least one requirement of that project.           *)
(***************************************************************************)
C26_StoredDetectionsAreRelevant ==
    \A j \in DOMAIN detection_table :
        \E i \in DOMAIN requirement_table :
            /\ requirement_table[i].project_id = detection_table[j].project_id
            /\ NameRule(detection_table[j].object_name, requirement_table[i].object_name)

C26_Witness ==
    /\ upload_call.pc = "done"
    /\ upload_call.status = 200
    /\ object_names(requirement_table) = <<Sofa>>
    /\ Len(upload_call.files) = 1
    /\ Len(upload_call.files[1].objects) = 3
    /\ Len(detection_table) = 1
    /\ detection_table[1].object_name = Couch

(***************************************************************************)
(* C27: the relevance test at upload and the match test of the progress    *)
(* computation agree: every stored detection makes some requirement        *)
(* detected, so a project with a stored detection never reports 0.         *)
(***************************************************************************)
C27_StoredDetectionCountsInProgress ==
    (Answered /\ call.detections # <<>>) =>
        /\ call.progress_data.completion_percentage > 0
        /\ \A j \in DOMAIN call.detections :
              \E i \in DOMAIN call.requirements :
                  /\ call.progress_data.requirement_matches[i].detected
                  /\ NameRule(call.detections[j].object_name, call.requirements[i])

(***************************************************************************)
(* C28: progress never goes backwards: whatever uploads follow a progress  *)
(* computation, a requirement it reported detected stays detected, its     *)
(* count and confidence do not decrease, and neither does the completion   *)
(* percentage.                                                             *)
(***************************************************************************)
C28_ProgressNeverGoesBack ==
    (Answered /\ call.project_id \in project_table) =>
        LET reported == call.progress_data
            later == calculate_project_progress(call.project_id, FALSE)
        IN  /\ later.kind = "ProgressResponse"
            /\ later.completion_percentage >= reported.completion_percentage
            /\ Len(later.requirement_matches) = Len(reported.requirement_matches)
            /\ \A i \in DOMAIN reported.requirement_matches :
                  reported.requirement_matches[i].detected =>
                      /\ later.requirement_matches[i].detected
                      /\ later.requirement_matches[i].count
                             >= reported.requirement_matches[i].count
                      /\ later.requirement_matches[i].confidence[1]
                             >= reported.requirement_matches[i].confidence[1]

C28_Witness ==
    /\ Answered
    /\ upload_call.status = 200
    /\ detection_table # <<>>
    /\ call.detections # detection_table
    /\ call.progress_data.completion_percentage = 5000
    /\ \E i \in DOMAIN call.requirements :
          /\ call.progress_data.requirement_matches[i].count = 1
          /\ calculate_project_progress(call.project_id, FALSE).requirement_matches[i].count = 2

(***************************************************************************)
(* C30: in every response of process_uploads total_objects_detected is the *)
(* sum of the lengths of detected_objects over detection_results, the      *)
(* summary's total and the number of Detection rows the call stored; and   *)
(* there are at most as many results as uploaded files, and at most as     *)
(* many uploaded files as submitted files.                                 *)
(***************************************************************************)
RECURSIVE ObjectsIn(_)
ObjectsIn(results) ==
    IF results = <<>> THEN 0
    ELSE Len(Head(results).detected_objects) + ObjectsIn(Tail(results))

C30_UploadCountsAgree ==
    [][(upload_call' # upload_call /\ upload_call'.status = 200) =>
          LET made == upload_call'
          IN  /\ made.total_objects_detected = ObjectsIn(made.detection_results)
              /\ made.total_objects_detected = made.processing_summary_total
              /\ made.total_objects_detected = Len(detection_table') - Len(detection_table)
              /\ Len(made.detection_results) <= Len(made.uploaded_files)
              /\ Len(made.uploaded_files) <= Len(made.files)]_vars

C30_Witness ==
    /\ upload_call.pc = "done"
    /\ upload_call.status = 200
    /\ upload_call.calls = 1
    /\ Len(upload_call.files) = 2
    /\ upload_call.files[1].fault = "save"
    /\ upload_call.files[2].fault = "none"
    /\ Len(upload_call.uploaded_files) = 1
    /\ upload_call.total_objects_detected = 1
    /\ Len(detection_table) = 1

====
